---- MODULE Spec2Model ----
(***************************************************************************)
(* A model of leptos_form_tool's control builder protocol                  *)
(* (src/src/controls/mod.rs, src/src/controls/text_input.rs), its          *)
(* parse/unparse conversion pairs and the validation aggregator            *)
(* (src/src/form.rs).                                                      *)
(*                                                                         *)
(* Closures supplied by the host (getters, setters, validation functions,  *)
(* visibility predicates) are opaque to the library; they are modelled as  *)
(* identifiers or as finite tables drawn from small sets.                  *)
(***************************************************************************)
EXTENDS Integers, Sequences, FiniteSets, TLC

VARIABLES
    cb,       \* the ControlBuilder under configuration (or NoBuilder / Consumed)
    cbuilt,   \* what ControlBuilder::build returned (NotBuilt before the call)
    vb,       \* the VanityControlBuilder under configuration
    vbuilt,   \* what VanityControlBuilder::build returned
    hist,     \* ghost: the configuration methods called on the builder so far
    raw,      \* the control's return value (a String) handed to the parse function
    conv,     \* the parse_fn / unparse_fn pair a parse_* method installed
    parsed,   \* what parse_fn returned for raw (NotRun before the call)
    unparsed, \* what unparse_fn returned for the parsed value (NotRun before)
    reparsed, \* what parse_fn returned for the unparsed value (NotRun before)
    controls, \* the form definition: the built controls, in declaration order
    validations, \* FormValidator::validations / Form::validations
    passes,   \* the FormValidator::validate calls in progress, one per caller
    fd,       \* Form::fd, the form data the signal holds
    ctl,      \* per control: the raw value last entered and its ValidationState
    outcome,  \* what Form::validate returned since the last input (or NotRun)
    validator, \* what Form::validator returned (NotRun before the call)
    parts     \* what Form::to_parts returned (NotRun while the Form is whole)

builderVars == <<cb, cbuilt, vb, vbuilt, hist>>
parseVars == <<raw, conv, parsed, unparsed, reparsed>>
formVars ==
    <<controls, validations, passes, fd, ctl, outcome, validator, parts>>
vars == <<builderVars, parseVars, formVars>>

----------------------------------------------------------------------------
(* Option<T> *)

None == [tag |-> "None"]
Some(x) == [tag |-> "Some", val |-> x]
IsSome(o) == o.tag = "Some"
Option(S) == {None} \cup {Some(x) : x \in S}

(* Result<T, E> *)
Ok(x) == [tag |-> "Ok", val |-> x]
Err(e) == [tag |-> "Err", val |-> e]
IsOk(r) == r.tag = "Ok"
IsErr(r) == r.tag = "Err"

----------------------------------------------------------------------------
(* Bounds and the small sets host-supplied values are drawn from. *)

MaxStyles == 2

Getters == {"get_age", "get_qty"}
Setters == {"set_age", "set_qty"}
CustomParseFns == {"p1", "p2"}
CustomUnparseFns == {"u1", "u2"}
ValidationFns == {"adult", "has_qty", "qty_needs_adult"}
ShowWhenFns == {"when_has_qty", "when_minor"}
StylingAttributes == {"a1", "a2"}
ControlDatas == {"d1", "d2"}
Msgs == {"m1", "m2"}

(* The field domain type FDT a builder is instantiated with decides which   *)
(* parse_* methods exist on it (the impl blocks' trait bounds).             *)
(*   "u8"          FromStr + ToString + Default                             *)
(*   "Option<u8>"  Option<FDT> with FDT: FromStr + ToString                 *)
(*   "Newtype"     TryFrom<String>, with String: From<Newtype>              *)
FDTs == {"u8", "Option<u8>", "Newtype"}

ControlBuildError ==
    {"MissingGetter", "MissingSetter", "MissingParseFn", "MissingUnParseFn"}

(* The closures the parse_* methods install. *)
ParseFn(kind, arg) == [kind |-> kind, arg |-> arg]
UnparseFn(kind, arg) == [kind |-> kind, arg |-> arg]

ParseFns ==
    {ParseFn("custom", p) : p \in CustomParseFns}
    \cup {ParseFn(k, "") : k \in {"from", "string", "trimmed", "optional",
                                  "optional_trimmed", "or_default",
                                  "trimmed_or_default"}}
    \cup {ParseFn(k, m) : k \in {"from_msg", "string_msg", "trimmed_msg"},
                          m \in Msgs}

UnparseFns ==
    {UnparseFn("custom", u) : u \in CustomUnparseFns}
    \cup {UnparseFn(k, "") : k \in {"from", "to_string", "optional"}}

NoBuilder == [tag |-> "NoBuilder"]
NotBuilt == [tag |-> "NotBuilt"]
NotRun == [tag |-> "NotRun"]
Returned(x) == [tag |-> "Returned", val |-> x]

(* build(self) takes the builder by value: afterwards the builder is gone.  *)
(* The moved-out value is remembered so that the result can be compared     *)
(* with what the builder held at that moment.                               *)
Consumed(b) == [tag |-> "Consumed", self |-> b]

IsBuilder(b) == b.tag = "Builder"
IsConsumed(b) == b.tag = "Consumed"

----------------------------------------------------------------------------
(* ControlBuilder *)

ControlBuilder_new(fdt, data) ==
    [tag |-> "Builder",
     fdt |-> fdt,
     data |-> data,
     getter |-> None,
     setter |-> None,
     parse_fn |-> None,
     unparse_fn |-> None,
     validation_fn |-> None,
     style_attributes |-> <<>>,
     show_when |-> None]

build_SetterFirst(b) ==
    IF b.setter = None THEN Err("MissingSetter")
    ELSE IF b.getter = None THEN Err("MissingGetter")
    ELSE IF b.unparse_fn = None THEN Err("MissingUnParseFn")
    ELSE IF b.parse_fn = None THEN Err("MissingParseFn")
    ELSE Ok([render_data |-> [data |-> b.data, styles |-> b.style_attributes],
             getter |-> b.getter.val,
             setter |-> b.setter.val,
             parse_fn |-> b.parse_fn.val,
             unparse_fn |-> b.unparse_fn.val,
             validation_fn |-> b.validation_fn,
             show_when |-> b.show_when])

build_RequiresValidation(b) ==
    IF b.getter = None THEN Err("MissingGetter")
    ELSE IF b.setter = None THEN Err("MissingSetter")
    ELSE IF b.parse_fn = None \/ b.validation_fn = None
         THEN Err("MissingParseFn")
    ELSE IF b.unparse_fn = None THEN Err("MissingUnParseFn")
    ELSE Ok([render_data |-> [data |-> b.data, styles |-> b.style_attributes],
             getter |-> b.getter.val,
             setter |-> b.setter.val,
             parse_fn |-> b.parse_fn.val,
             unparse_fn |-> b.unparse_fn.val,
             validation_fn |-> b.validation_fn,
             show_when |-> b.show_when])

build(b) ==
    IF b.getter = None THEN Err("MissingGetter")
    ELSE IF b.setter = None THEN Err("MissingSetter")
    ELSE IF b.parse_fn = None THEN Err("MissingParseFn")
    ELSE IF b.unparse_fn = None THEN Err("MissingUnParseFn")
    ELSE Ok([render_data |-> [data |-> b.data, styles |-> b.style_attributes],
             getter |-> b.getter.val,
             setter |-> b.setter.val,
             parse_fn |-> b.parse_fn.val,
             unparse_fn |-> b.unparse_fn.val,
             validation_fn |-> b.validation_fn,
             show_when |-> b.show_when])

show_when(b, when) == [b EXCEPT !.show_when = Some(when)]

getter(b, g) == [b EXCEPT !.getter = Some(g)]

setter(b, s) == [b EXCEPT !.setter = Some(s)]

parse_custom(b, p, u) ==
    [b EXCEPT !.parse_fn = Some(ParseFn("custom", p)),
              !.unparse_fn = Some(UnparseFn("custom", u))]

style(b, attribute) ==
    [b EXCEPT !.style_attributes = Append(@, attribute)]

parse_from(b) ==
    [b EXCEPT !.parse_fn = Some(ParseFn("from", "")),
              !.unparse_fn = Some(UnparseFn("from", ""))]

parse_from_msg(b, msg) ==
    [b EXCEPT !.parse_fn = Some(ParseFn("from_msg", msg)),
              !.unparse_fn = Some(UnparseFn("from", ""))]

parse_string(b) ==
    [b EXCEPT !.parse_fn = Some(ParseFn("string", "")),
              !.unparse_fn = Some(UnparseFn("to_string", ""))]

parse_trimmed_KeepsUnparse(b) ==
    [b EXCEPT !.parse_fn = Some(ParseFn("trimmed", ""))]

parse_trimmed(b) ==
    [b EXCEPT !.parse_fn = Some(ParseFn("trimmed", "")),
              !.unparse_fn = Some(UnparseFn("to_string", ""))]

parse_string_msg(b, msg) ==
    [b EXCEPT !.parse_fn = Some(ParseFn("string_msg", msg)),
              !.unparse_fn = Some(UnparseFn("to_string", ""))]

parse_trimmed_msg(b, msg) ==
    [b EXCEPT !.parse_fn = Some(ParseFn("trimmed_msg", msg)),
              !.unparse_fn = Some(UnparseFn("to_string", ""))]

parse_optional(b) ==
    [b EXCEPT !.parse_fn = Some(ParseFn("optional", "")),
              !.unparse_fn = Some(UnparseFn("optional", ""))]

parse_optional_trimmed(b) ==
    [b EXCEPT !.parse_fn = Some(ParseFn("optional_trimmed", "")),
              !.unparse_fn = Some(UnparseFn("optional", ""))]

parse_or_default(b) ==
    [b EXCEPT !.parse_fn = Some(ParseFn("or_default", "")),
              !.unparse_fn = Some(UnparseFn("to_string", ""))]

parse_trimmed_or_default(b) ==
    [b EXCEPT !.parse_fn = Some(ParseFn("trimmed_or_default", "")),
              !.unparse_fn = Some(UnparseFn("to_string", ""))]

validation_fn_KeepsFirst(b, v) ==
    IF IsSome(b.validation_fn) THEN b ELSE [b EXCEPT !.validation_fn = Some(v)]

validation_fn(b, v) == [b EXCEPT !.validation_fn = Some(v)]

----------------------------------------------------------------------------
(* TextInputData and the methods of ControlBuilder<FD, TextInputData, FDT> *)

UpdateEvents == {"OnFocusout", "OnInput", "OnChange"}
UpdateEvent_default == "OnChange"

ControlNames == {"n1", "n2"}
Labels == {"l1", "l2"}
Placeholders == {"ph1", "ph2"}
InputTypes == {"email", "number"}

TextInputData_default ==
    [name |-> "",
     placeholder |-> None,
     label |-> None,
     input_type |-> "input",
     update_event |-> UpdateEvent_default]

named(b, control_name) == [b EXCEPT !.data.name = control_name]

labeled(b, label) == [b EXCEPT !.data.label = Some(label)]

placeholder(b, ph) == [b EXCEPT !.data.placeholder = Some(ph)]

password(b) == [b EXCEPT !.data.input_type = "password"]

date(b) == [b EXCEPT !.data.input_type = "date"]

input_type(b, type) == [b EXCEPT !.data.input_type = type]

update_on(b, event) == [b EXCEPT !.data.update_event = event]

----------------------------------------------------------------------------
(* VanityControlBuilder *)

VanityControlBuilder_new(data) ==
    [tag |-> "Builder",
     data |-> data,
     style_attributes |-> <<>>,
     getter |-> None,
     show_when |-> None]

VanityControlBuilder_build_DropGetter(b) ==
    [render_data |-> [data |-> b.data, styles |-> b.style_attributes],
     getter |-> None,
     show_when |-> b.show_when]

VanityControlBuilder_build(b) ==
    [render_data |-> [data |-> b.data, styles |-> b.style_attributes],
     getter |-> b.getter,
     show_when |-> b.show_when]

VanityControlBuilder_show_when(b, when) == [b EXCEPT !.show_when = Some(when)]

VanityControlBuilder_style(b, attribute) ==
    [b EXCEPT !.style_attributes = Append(@, attribute)]

VanityControlBuilder_getter(b, g) == [b EXCEPT !.getter = Some(g)]

----------------------------------------------------------------------------
(* The form data FD of the host and the closures it supplies.  FD is a      *)
(* struct of two numeric fields; validation functions and visibility        *)
(* predicates see the whole struct.                                         *)

FormData(age, qty) == [age |-> age, qty |-> qty]
DefaultFD == FormData(0, 0)

unit == "()"

(* impl Fn(&FD) -> Result<(), String> *)
Call_validation_fn(v, form_data) ==
    CASE v = "adult" ->
            IF form_data.age >= 18 THEN Ok(unit) ELSE Err("must be 18 or older")
      [] v = "has_qty" ->
            IF form_data.qty # 0 THEN Ok(unit) ELSE Err("required")
      [] v = "qty_needs_adult" ->
            IF form_data.qty = 0 \/ form_data.age >= 18 THEN Ok(unit)
            ELSE Err("must be 18 or older")

(* impl Fn(Signal<FD>, Arc<FD::Context>) -> bool *)
Call_show_when(w, form_data) ==
    CASE w = "when_has_qty" -> form_data.qty # 0
      [] w = "when_minor" -> form_data.age < 18

(* impl FieldGetter<FD, FDT> and impl FieldSetter<FD, FDT> *)
Call_getter(g, form_data) ==
    CASE g = "get_age" -> form_data.age
      [] g = "get_qty" -> form_data.qty

Call_setter(st, form_data, value) ==
    CASE st = "set_age" -> [form_data EXCEPT !.age = value]
      [] st = "set_qty" -> [form_data EXCEPT !.qty = value]

PassIds == {"p1", "p2"}

IdlePass ==
    [pc |-> "idle", form_data |-> DefaultFD, i |-> 1, result |-> NotRun,
     invoked |-> <<>>, ran |-> <<>>]

FormIdle ==
    /\ controls = <<>>
    /\ validations = <<>>
    /\ passes = [p \in PassIds |-> IdlePass]
    /\ fd = DefaultFD
    /\ ctl = <<>>
    /\ outcome = NotRun
    /\ validator = NotRun
    /\ parts = NotRun

----------------------------------------------------------------------------
(* Strings are sequences of characters.  FDT = u8 stands for the types the  *)
(* textual parse_* methods are used with (FromStr + ToString + Default).    *)

MaxLen == 3

Whitespace == {" "}
DigitChars == <<"0", "1", "2", "3", "4", "5", "6", "7", "8", "9">>
Alphabet == {" ", "+", "0", "1", "7", "a"}

Strings == UNION {[1..n -> Alphabet] : n \in 0..MaxLen}

IsDigit(c) == \E d \in 1..10 : DigitChars[d] = c
DigitVal(c) == (CHOOSE d \in 1..10 : DigitChars[d] = c) - 1

U8_MAX == 2^8 - 1
U8_default == 0


(* str::trim: the slice without leading and trailing whitespace *)
RECURSIVE trim_start(_)
trim_start(s) ==
    IF s # <<>> /\ Head(s) \in Whitespace THEN trim_start(Tail(s)) ELSE s

RECURSIVE trim_end(_)
trim_end(s) ==
    IF s # <<>> /\ s[Len(s)] \in Whitespace
    THEN trim_end(SubSeq(s, 1, Len(s) - 1))
    ELSE s

trim(s) == trim_end(trim_start(s))

(* <u8 as FromStr>::from_str: the error is an IntErrorKind.  Digits are     *)
(* consumed left to right; each step checks the digit, then the             *)
(* multiplication, then the addition.                                       *)
RECURSIVE from_str_digits(_, _)
from_str_digits(digits, result) ==
    IF digits = <<>> THEN Ok(result)
    ELSE IF ~IsDigit(Head(digits)) THEN Err("InvalidDigit")
    ELSE IF result * 10 > U8_MAX THEN Err("PosOverflow")
    ELSE IF result * 10 + DigitVal(Head(digits)) > U8_MAX THEN Err("PosOverflow")
    ELSE from_str_digits(Tail(digits), result * 10 + DigitVal(Head(digits)))

from_str(src) ==
    IF src = <<>> THEN Err("Empty")
    ELSE IF src = <<"+">> \/ src = <<"-">> THEN Err("InvalidDigit")
    ELSE IF Head(src) = "+" THEN from_str_digits(Tail(src), 0)
    ELSE from_str_digits(src, 0)

(* <ParseIntError as Display>: the text map_err(|e| e.to_string()) yields *)
ParseIntError_to_string(kind) ==
    CASE kind = "Empty" -> "cannot parse integer from empty string"
      [] kind = "InvalidDigit" -> "invalid digit found in string"
      [] kind = "PosOverflow" -> "number too large to fit in target type"

(* <u8 as ToString>::to_string *)
RECURSIVE to_string(_)
to_string(n) ==
    IF n < 10 THEN <<DigitChars[n + 1]>>
    ELSE to_string(n \div 10) \o <<DigitChars[(n % 10) + 1]>>

(* Result::map_err, Result::ok, Result::unwrap_or_default *)
map_err_to_string(r) ==
    IF IsOk(r) THEN r ELSE Err(ParseIntError_to_string(r.val))
map_err_msg(r, msg) == IF IsOk(r) THEN r ELSE Err(msg)
ok(r) == IF IsOk(r) THEN Some(r.val) ELSE None
unwrap_or_default(r) == IF IsOk(r) THEN r.val ELSE U8_default

(* The closures the textual parse_* methods box as parse_fn / unparse_fn. *)
parse_string_fn(control_return_value) ==
    map_err_to_string(from_str(control_return_value))

parse_trimmed_fn_TrimsStartOnly(control_return_value) ==
    map_err_to_string(from_str(trim_start(control_return_value)))

parse_trimmed_fn(control_return_value) ==
    map_err_to_string(from_str(trim(control_return_value)))

parse_string_msg_fn_KeepsCause(msg, control_return_value) ==
    map_err_to_string(from_str(control_return_value))

parse_string_msg_fn(msg, control_return_value) ==
    map_err_msg(from_str(control_return_value), msg)

parse_trimmed_msg_fn(msg, control_return_value) ==
    map_err_msg(from_str(trim(control_return_value)), msg)

parse_optional_fn_Propagates(control_return_value) ==
    LET r == from_str(control_return_value)
    IN  IF IsOk(r) THEN Ok(Some(r.val)) ELSE map_err_to_string(r)

parse_optional_fn(control_return_value) ==
    Ok(ok(from_str(control_return_value)))

parse_optional_trimmed_fn(control_return_value) ==
    Ok(ok(from_str(trim(control_return_value))))

parse_or_default_fn(control_return_value) ==
    Ok(unwrap_or_default(from_str(control_return_value)))

parse_trimmed_or_default_fn_Propagates(control_return_value) ==
    map_err_to_string(from_str(trim(control_return_value)))

parse_trimmed_or_default_fn(control_return_value) ==
    Ok(unwrap_or_default(from_str(trim(control_return_value))))

unparse_to_string_fn_Padded(field) == <<" ">> \o to_string(field)

unparse_to_string_fn(field) == to_string(field)

unparse_optional_fn(field) ==
    IF IsSome(field) THEN to_string(field.val) ELSE <<>>

(* FDT = Newtype stands for the types parse_from is used with: a host type  *)
(* with TryFrom<String>, whose error has ToString, and String: From<FDT>.   *)
(* This one wraps a non-empty string that holds no whitespace.              *)
Newtype_try_from(value) ==
    IF value = <<>> THEN Err("Empty")
    ELSE IF \E i \in 1..Len(value) : value[i] \in Whitespace
         THEN Err("Whitespace")
    ELSE Ok([newtype |-> value])

Newtype_Error_to_string(e) ==
    CASE e = "Empty" -> "must not be empty"
      [] e = "Whitespace" -> "must not contain whitespace"

String_from_Newtype(field) == field.newtype

(* The closures parse_from and parse_from_msg box. *)
parse_from_fn(control_return_value) ==
    LET r == Newtype_try_from(control_return_value)
    IN  IF IsOk(r) THEN r ELSE Err(Newtype_Error_to_string(r.val))

parse_from_msg_fn(msg, control_return_value) ==
    map_err_msg(Newtype_try_from(control_return_value), msg)

unparse_from_fn(field) == String_from_Newtype(field)

(* Calling the boxed parse_fn / unparse_fn. *)
Call_parse_fn(pf, control_return_value) ==
    CASE pf.kind = "string" -> parse_string_fn(control_return_value)
      [] pf.kind = "trimmed" -> parse_trimmed_fn(control_return_value)
      [] pf.kind = "string_msg" ->
            parse_string_msg_fn(pf.arg, control_return_value)
      [] pf.kind = "trimmed_msg" ->
            parse_trimmed_msg_fn(pf.arg, control_return_value)
      [] pf.kind = "optional" -> parse_optional_fn(control_return_value)
      [] pf.kind = "optional_trimmed" ->
            parse_optional_trimmed_fn(control_return_value)
      [] pf.kind = "or_default" -> parse_or_default_fn(control_return_value)
      [] pf.kind = "trimmed_or_default" ->
            parse_trimmed_or_default_fn(control_return_value)
      [] pf.kind = "from" -> parse_from_fn(control_return_value)
      [] pf.kind = "from_msg" -> parse_from_msg_fn(pf.arg, control_return_value)

Call_unparse_fn(uf, field) ==
    CASE uf.kind = "to_string" -> unparse_to_string_fn(field)
      [] uf.kind = "optional" -> unparse_optional_fn(field)
      [] uf.kind = "from" -> unparse_from_fn(field)

(* The pair each textual parse_* method leaves in the builder. *)
PairOf(b) == [parse_fn |-> b.parse_fn.val, unparse_fn |-> b.unparse_fn.val]

TextualPairs ==
    LET u8 == ControlBuilder_new("u8", "d1")
        opt == ControlBuilder_new("Option<u8>", "d1")
    IN  {PairOf(parse_string(u8)), PairOf(parse_trimmed(u8)),
         PairOf(parse_or_default(u8)), PairOf(parse_trimmed_or_default(u8)),
         PairOf(parse_optional(opt)), PairOf(parse_optional_trimmed(opt))}
        \cup {PairOf(parse_string_msg(u8, m)) : m \in Msgs}
        \cup {PairOf(parse_trimmed_msg(u8, m)) : m \in Msgs}

(* The pair parse_from and parse_from_msg leave in the builder. *)
FromPairs ==
    LET nt == ControlBuilder_new("Newtype", "d1")
    IN  {PairOf(parse_from(nt))} \cup {PairOf(parse_from_msg(nt, m)) : m \in Msgs}

ParseIdle ==
    /\ raw = <<>>
    /\ conv = None
    /\ parsed = NotRun
    /\ unparsed = NotRun
    /\ reparsed = NotRun

BuilderIdle ==
    /\ cb = NoBuilder
    /\ vb = NoBuilder
    /\ cbuilt = NotBuilt
    /\ vbuilt = NotBuilt
    /\ hist = {}

ParseInit ==
    /\ raw \in Strings
    /\ conv \in TextualPairs \cup FromPairs
    /\ parsed = NotRun
    /\ unparsed = NotRun
    /\ reparsed = NotRun
    /\ BuilderIdle
    /\ FormIdle

(* forward: the control hands its return value to parse_fn *)
Forward ==
    /\ parsed = NotRun
    /\ parsed' = Call_parse_fn(conv.parse_fn, raw)
    /\ UNCHANGED <<raw, conv, unparsed, reparsed>>
    /\ UNCHANGED <<builderVars, formVars>>

(* backward: the parsed field value is handed to unparse_fn *)
Backward ==
    /\ parsed # NotRun
    /\ IsOk(parsed)
    /\ unparsed = NotRun
    /\ unparsed' = Returned(Call_unparse_fn(conv.unparse_fn, parsed.val))
    /\ UNCHANGED <<raw, conv, parsed, reparsed>>
    /\ UNCHANGED <<builderVars, formVars>>

(* forward again: the control hands back the value it was given to show *)
ForwardAgain ==
    /\ unparsed # NotRun
    /\ reparsed = NotRun
    /\ reparsed' = Call_parse_fn(conv.parse_fn, unparsed.val)
    /\ UNCHANGED <<raw, conv, parsed, unparsed>>
    /\ UNCHANGED <<builderVars, formVars>>

ParseNext == Forward \/ Backward \/ ForwardAgain

SpecParse == ParseInit /\ [][ParseNext]_vars

----------------------------------------------------------------------------
(* The builder protocol: configuration calls in any order, then build.      *)

BuilderInit ==
    /\ \/ /\ \E fdt \in FDTs, data \in ControlDatas :
               cb = ControlBuilder_new(fdt, data)
          /\ vb = NoBuilder
       \/ /\ cb = NoBuilder
          /\ \E data \in ControlDatas : vb = VanityControlBuilder_new(data)
    /\ cbuilt = NotBuilt
    /\ vbuilt = NotBuilt
    /\ hist = {}

ControlCall(b, name) ==
    /\ IsBuilder(cb)
    /\ cb' = b
    /\ hist' = hist \cup {name}
    /\ UNCHANGED <<cbuilt, vb, vbuilt>>
    /\ UNCHANGED <<parseVars, formVars>>

CallShowWhen == \E w \in ShowWhenFns : ControlCall(show_when(cb, w), "show_when")

CallGetter == \E g \in Getters : ControlCall(getter(cb, g), "getter")

CallSetter == \E s \in Setters : ControlCall(setter(cb, s), "setter")

CallParseCustom ==
    \E p \in CustomParseFns, u \in CustomUnparseFns :
        ControlCall(parse_custom(cb, p, u), "parse")

CallStyle ==
    /\ IsBuilder(cb)
    /\ Len(cb.style_attributes) < MaxStyles
    /\ \E a \in StylingAttributes : ControlCall(style(cb, a), "style")

CallParseFrom ==
    /\ IsBuilder(cb) /\ cb.fdt = "Newtype"
    /\ ControlCall(parse_from(cb), "parse")

CallParseFromMsg ==
    /\ IsBuilder(cb) /\ cb.fdt = "Newtype"
    /\ \E m \in Msgs : ControlCall(parse_from_msg(cb, m), "parse")

CallParseString ==
    /\ IsBuilder(cb) /\ cb.fdt = "u8"
    /\ ControlCall(parse_string(cb), "parse")

CallParseTrimmed ==
    /\ IsBuilder(cb) /\ cb.fdt = "u8"
    /\ ControlCall(parse_trimmed(cb), "parse")

CallParseStringMsg ==
    /\ IsBuilder(cb) /\ cb.fdt = "u8"
    /\ \E m \in Msgs : ControlCall(parse_string_msg(cb, m), "parse")

CallParseTrimmedMsg ==
    /\ IsBuilder(cb) /\ cb.fdt = "u8"
    /\ \E m \in Msgs : ControlCall(parse_trimmed_msg(cb, m), "parse")

CallParseOptional ==
    /\ IsBuilder(cb) /\ cb.fdt = "Option<u8>"
    /\ ControlCall(parse_optional(cb), "parse")

CallParseOptionalTrimmed ==
    /\ IsBuilder(cb) /\ cb.fdt = "Option<u8>"
    /\ ControlCall(parse_optional_trimmed(cb), "parse")

CallParseOrDefault ==
    /\ IsBuilder(cb) /\ cb.fdt = "u8"
    /\ ControlCall(parse_or_default(cb), "parse")

CallParseTrimmedOrDefault ==
    /\ IsBuilder(cb) /\ cb.fdt = "u8"
    /\ ControlCall(parse_trimmed_or_default(cb), "parse")

CallValidationFn ==
    \E v \in ValidationFns : ControlCall(validation_fn(cb, v), "validation_fn")

CallBuild ==
    /\ IsBuilder(cb)
    /\ cbuilt' = build(cb)
    /\ cb' = Consumed(cb)
    /\ UNCHANGED <<vb, vbuilt, hist>>
    /\ UNCHANGED <<parseVars, formVars>>

VanityCall(b, name) ==
    /\ IsBuilder(vb)
    /\ vb' = b
    /\ hist' = hist \cup {name}
    /\ UNCHANGED <<cb, cbuilt, vbuilt>>
    /\ UNCHANGED <<parseVars, formVars>>

CallVanityShowWhen ==
    \E w \in ShowWhenFns :
        VanityCall(VanityControlBuilder_show_when(vb, w), "show_when")

CallVanityStyle ==
    /\ IsBuilder(vb)
    /\ Len(vb.style_attributes) < MaxStyles
    /\ \E a \in StylingAttributes :
           VanityCall(VanityControlBuilder_style(vb, a), "style")

CallVanityGetter ==
    \E g \in Getters : VanityCall(VanityControlBuilder_getter(vb, g), "getter")

CallVanityBuild ==
    /\ IsBuilder(vb)
    /\ vbuilt' = VanityControlBuilder_build(vb)
    /\ vb' = Consumed(vb)
    /\ UNCHANGED <<cb, cbuilt, hist>>
    /\ UNCHANGED <<parseVars, formVars>>

BuilderNext ==
    \/ CallShowWhen
    \/ CallGetter
    \/ CallSetter
    \/ CallParseCustom
    \/ CallStyle
    \/ CallParseFrom
    \/ CallParseFromMsg
    \/ CallParseString
    \/ CallParseTrimmed
    \/ CallParseStringMsg
    \/ CallParseTrimmedMsg
    \/ CallParseOptional
    \/ CallParseOptionalTrimmed
    \/ CallParseOrDefault
    \/ CallParseTrimmedOrDefault
    \/ CallValidationFn
    \/ CallBuild
    \/ CallVanityShowWhen
    \/ CallVanityStyle
    \/ CallVanityGetter
    \/ CallVanityBuild

(* The text input's builder: the methods of every control builder and     *)
(* those of the text input, called in any order.  At most MaxCalls          *)
(* different methods are called on one builder.                             *)
MaxCalls == 3

MayCall == Cardinality(hist) < MaxCalls

CallNamed == \E n \in ControlNames : ControlCall(named(cb, n), "named")

CallLabeled == \E l \in Labels : ControlCall(labeled(cb, l), "labeled")

CallPlaceholder ==
    \E ph \in Placeholders : ControlCall(placeholder(cb, ph), "placeholder")

CallPassword == ControlCall(password(cb), "password")

CallDate == ControlCall(date(cb), "date")

CallInputType ==
    \E t \in InputTypes : ControlCall(input_type(cb, t), "input_type")

CallUpdateOn == \E e \in UpdateEvents : ControlCall(update_on(cb, e), "update_on")

TextInputInit ==
    /\ \E fdt \in FDTs : cb = ControlBuilder_new(fdt, TextInputData_default)
    /\ vb = NoBuilder
    /\ cbuilt = NotBuilt
    /\ vbuilt = NotBuilt
    /\ hist = {}
    /\ ParseIdle
    /\ FormIdle

TextInputNext ==
    \/ MayCall /\ CallShowWhen
    \/ MayCall /\ CallGetter
    \/ MayCall /\ CallSetter
    \/ MayCall /\ CallParseCustom
    \/ MayCall /\ CallStyle
    \/ MayCall /\ CallParseFrom
    \/ MayCall /\ CallParseFromMsg
    \/ MayCall /\ CallParseString
    \/ MayCall /\ CallParseTrimmed
    \/ MayCall /\ CallParseStringMsg
    \/ MayCall /\ CallParseTrimmedMsg
    \/ MayCall /\ CallParseOptional
    \/ MayCall /\ CallParseOptionalTrimmed
    \/ MayCall /\ CallParseOrDefault
    \/ MayCall /\ CallParseTrimmedOrDefault
    \/ MayCall /\ CallValidationFn
    \/ MayCall /\ CallNamed
    \/ MayCall /\ CallLabeled
    \/ MayCall /\ CallPlaceholder
    \/ MayCall /\ CallPassword
    \/ MayCall /\ CallDate
    \/ MayCall /\ CallInputType
    \/ MayCall /\ CallUpdateOn
    \/ CallBuild

SpecTextInput == TextInputInit /\ [][TextInputNext]_vars

Init == BuilderInit /\ ParseIdle /\ FormIdle

Next == BuilderNext

Spec == Init /\ [][Next]_vars

----------------------------------------------------------------------------
(* The validation aggregator.                                               *)

MaxControls == 2

(* The controls a form definition declares: text inputs for the age field,  *)
(* configured through the builder, with and without a validation function   *)
(* and a visibility predicate.                                              *)
AgeControlBuilder ==
    parse_trimmed(setter(getter(ControlBuilder_new("u8", "d1"), "get_age"),
                         "set_age"))

WithValidation(b, v) == IF IsSome(v) THEN validation_fn(b, v.val) ELSE b
WithShowWhen(b, w) == IF IsSome(w) THEN show_when(b, w.val) ELSE b

AgeControls ==
    {build(WithShowWhen(WithValidation(AgeControlBuilder, v), w)).val :
        v \in Option(ValidationFns), w \in Option(ShowWhenFns)}

(* FormBuilder::add_control: a control with a validation function           *)
(* contributes one entry to the validations, in declaration order; the      *)
(* entry closes over the control's visibility predicate and validation      *)
(* function.  A control without a validation function contributes none.     *)
Entry(control) ==
    [validation_fn |-> control.validation_fn.val,
     show_when |-> control.show_when]

add_control_EntryForEvery(vs, control) ==
    IF IsSome(control.validation_fn) THEN Append(vs, Entry(control))
    ELSE Append(vs, [validation_fn |-> "has_qty",
                     show_when |-> control.show_when])

add_control(vs, control) ==
    IF IsSome(control.validation_fn) THEN Append(vs, Entry(control)) ELSE vs

RECURSIVE FormBuilder_validations(_)
FormBuilder_validations(cs) ==
    IF cs = <<>> THEN <<>>
    ELSE add_control(FormBuilder_validations(SubSeq(cs, 1, Len(cs) - 1)),
                     cs[Len(cs)])

(* Whether the entry's control is shown for this snapshot, and the call of  *)
(* the entry: a hidden control's validation function is not run.            *)
Entry_shown_BakedIn(e, form_data) ==
    IF IsSome(e.show_when) THEN Call_show_when(e.show_when.val, DefaultFD)
    ELSE TRUE

Entry_shown(e, form_data) ==
    IF IsSome(e.show_when) THEN Call_show_when(e.show_when.val, form_data)
    ELSE TRUE

Call_entry_IgnoresShowWhen(e, form_data) ==
    Call_validation_fn(e.validation_fn, form_data)

Call_entry(e, form_data) ==
    IF Entry_shown(e, form_data)
    THEN Call_validation_fn(e.validation_fn, form_data)
    ELSE Ok(unit)

(* FormValidator::validate, one step at a time.  invoked and ran count,     *)
(* per entry, the calls of the entry and the runs of its validation         *)
(* function.                                                                *)
validate_begin(vs, form_data) ==
    [pc |-> "running", form_data |-> form_data, i |-> 1, result |-> NotRun,
     invoked |-> [k \in 1..Len(vs) |-> 0],
     ran |-> [k \in 1..Len(vs) |-> 0]]

Counted(pass, vs) ==
    [pass EXCEPT
        !.invoked[pass.i] = @ + 1,
        !.ran[pass.i] =
            IF Entry_shown(vs[pass.i], pass.form_data) THEN @ + 1 ELSE @]

validate_next_SwallowsError(vs, pass) ==
    [Counted(pass, vs) EXCEPT !.i = @ + 1]

validate_next_CallsTwice(vs, pass) ==
    LET r == Call_entry(vs[pass.i], pass.form_data)
    IN  IF IsErr(r)
        THEN [Counted(Counted(pass, vs), vs) EXCEPT !.pc = "done", !.result = r]
        ELSE [Counted(pass, vs) EXCEPT !.i = @ + 1]

(* the loop body: call the entry and return its Err, if any *)
validate_next(vs, pass) ==
    LET r == Call_entry(vs[pass.i], pass.form_data)
    IN  IF IsErr(r)
        THEN [Counted(pass, vs) EXCEPT !.pc = "done", !.result = r]
        ELSE [Counted(pass, vs) EXCEPT !.i = @ + 1]

(* Ok(()) *)
validate_return(pass) == [pass EXCEPT !.pc = "done", !.result = Ok(unit)]

(* Whether a built control is shown for the form data. *)
ControlShown(c, form_data) ==
    IF IsSome(c.show_when) THEN Call_show_when(c.show_when.val, form_data)
    ELSE TRUE

(* The records validate is called with. *)
SampleFDs == {FormData(a, q) : a \in {17, 18}, q \in {0, 1}}

BoundedControls == UNION {[1..n -> AgeControls] : n \in 0..MaxControls}

ValidateInit ==
    /\ controls \in BoundedControls
    /\ validations = FormBuilder_validations(controls)
    /\ passes = [p \in PassIds |-> IdlePass]
    /\ fd = DefaultFD
    /\ ctl = <<>>
    /\ outcome = NotRun
    /\ validator = NotRun
    /\ parts = NotRun
    /\ BuilderIdle
    /\ ParseIdle

Validate_begin(p) ==
    /\ passes[p].pc \in {"idle", "done"}
    /\ \E form_data \in SampleFDs :
           passes' = [passes EXCEPT ![p] = validate_begin(validations, form_data)]
    /\ UNCHANGED <<controls, validations, fd, ctl, outcome, validator, parts>>
    /\ UNCHANGED <<builderVars, parseVars>>

Validate_next_SharedCursor(p) ==
    /\ passes[p].pc = "running"
    /\ passes[p].i <= Len(validations)
    /\ LET stepped == validate_next(validations, passes[p])
       IN  passes' = [q \in PassIds |->
                        IF q = p THEN stepped
                        ELSE IF passes[q].pc = "running"
                             THEN [passes[q] EXCEPT !.i = stepped.i]
                             ELSE passes[q]]
    /\ UNCHANGED <<controls, validations, fd, ctl, outcome, validator, parts>>
    /\ UNCHANGED <<builderVars, parseVars>>

Validate_next(p) ==
    /\ passes[p].pc = "running"
    /\ passes[p].i <= Len(validations)
    /\ passes' = [passes EXCEPT ![p] = validate_next(validations, passes[p])]
    /\ UNCHANGED <<controls, validations, fd, ctl, outcome, validator, parts>>
    /\ UNCHANGED <<builderVars, parseVars>>

Validate_return(p) ==
    /\ passes[p].pc = "running"
    /\ passes[p].i > Len(validations)
    /\ passes' = [passes EXCEPT ![p] = validate_return(passes[p])]
    /\ UNCHANGED <<controls, validations, fd, ctl, outcome, validator, parts>>
    /\ UNCHANGED <<builderVars, parseVars>>

ValidateNext ==
    \/ \E p \in PassIds : Validate_begin(p)
    \/ \E p \in PassIds : Validate_next(p)
    \/ \E p \in PassIds : Validate_return(p)

SpecValidate == ValidateInit /\ [][ValidateNext]_vars

----------------------------------------------------------------------------
(* A rendered form: two text inputs bound to the age and qty fields.        *)

(* ValidationState *)
Passed == [tag |-> "Passed"]
ParseError(e) == [tag |-> "ParseError", msg |-> e]
ValidationError(e) == [tag |-> "ValidationError", msg |-> e]

(* The raw values a user types into a text input. *)
RawInputs ==
    {<<"a", "b", "c">>, <<" ", "1", "7", " ">>, <<"2", "1">>, <<>>}

AgeBase ==
    setter(getter(ControlBuilder_new("u8", "d1"), "get_age"), "set_age")

AgeParsed ==
    {parse_string(AgeBase), parse_trimmed(AgeBase),
     parse_string_msg(AgeBase, "m1"), parse_trimmed_msg(AgeBase, "m1"),
     parse_or_default(AgeBase), parse_trimmed_or_default(AgeBase)}

AgeInputs ==
    {build(WithShowWhen(WithValidation(b, v), w)).val :
        b \in AgeParsed, v \in Option(ValidationFns), w \in Option(ShowWhenFns)}

QtyInput ==
    build(validation_fn(
            parse_trimmed(setter(getter(ControlBuilder_new("u8", "d2"),
                                        "get_qty"), "set_qty")),
            "has_qty")).val

FormDefinitions ==
    UNION {{<<a>>, <<a, QtyInput>>, <<QtyInput, a>>} : a \in AgeInputs}

(* What the control shows for the form data: unparse_fn(getter(fd)) *)
Displayed(control, form_data) ==
    Call_unparse_fn(control.unparse_fn, Call_getter(control.getter, form_data))

(* The control's change handler: parse the raw value; on failure the        *)
(* state is ParseError and nothing else happens; on success the value is    *)
(* written with the setter and the control's validation function, if any,   *)
(* runs on the updated form data.  checked remembers the form data the      *)
(* validation function was run on (None: it was not run).                   *)
on_input_ValidatesAnyway(control, form_data, value) ==
    LET r == Call_parse_fn(control.parse_fn, value)
        new == IF IsOk(r) THEN Call_setter(control.setter, form_data, r.val)
               ELSE form_data
        v == IF IsSome(control.validation_fn)
             THEN Call_validation_fn(control.validation_fn.val, new)
             ELSE Ok(unit)
    IN  [fd |-> new,
         state |-> IF IsErr(v) THEN ValidationError(v.val)
                   ELSE IF IsErr(r) THEN ParseError(r.val) ELSE Passed,
         checked |-> IF IsSome(control.validation_fn) THEN Some(new) ELSE None]

on_input(control, form_data, value) ==
    LET r == Call_parse_fn(control.parse_fn, value)
    IN  IF IsErr(r)
        THEN [fd |-> form_data, state |-> ParseError(r.val), checked |-> None]
        ELSE LET new == Call_setter(control.setter, form_data, r.val)
             IN  IF ~IsSome(control.validation_fn)
                 THEN [fd |-> new, state |-> Passed, checked |-> None]
                 ELSE LET v == Call_validation_fn(control.validation_fn.val, new)
                      IN  [fd |-> new,
                           state |-> IF IsOk(v) THEN Passed
                                     ELSE ValidationError(v.val),
                           checked |-> Some(new)]

(* FormValidator::validate run from the first entry to its return *)
RECURSIVE run_to_end(_, _)
run_to_end(vs, pass) ==
    IF pass.pc = "done" THEN pass
    ELSE IF pass.i > Len(vs) THEN validate_return(pass)
    ELSE run_to_end(vs, validate_next(vs, pass))

FormValidator_validate(vs, form_data) ==
    run_to_end(vs, validate_begin(vs, form_data)).result

(* Form::validator and Form::validate *)
Form_validator_Reversed(vs) == [k \in 1..Len(vs) |-> vs[Len(vs) + 1 - k]]

Form_validator(vs) == vs

(* Form::fd is a handle on the signal that holds the form data (the         *)
(* variable fd is what the signal holds); Form::view is the rendered view.  *)
Form_fd == "RwSignal<FD>"
Form_view == "AnyView"

(* Form::to_parts: the signal, a FormValidator of the validations, the view *)
Form_to_parts(form_fd, vs, view) == <<form_fd, vs, view>>

Form_validate_StaleSnapshot(vs, form_fd) ==
    FormValidator_validate(Form_validator(vs), DefaultFD)

Form_validate(vs, form_fd) ==
    FormValidator_validate(Form_validator(vs), form_fd)

FormInit ==
    /\ controls \in FormDefinitions
    /\ validations = FormBuilder_validations(controls)
    /\ passes = [p \in PassIds |-> IdlePass]
    /\ fd = DefaultFD
    /\ ctl = [k \in 1..Len(controls) |->
                [raw |-> Displayed(controls[k], fd), state |-> Passed,
                 event |-> FALSE, checked |-> None]]
    /\ outcome = NotRun
    /\ validator = NotRun
    /\ parts = NotRun
    /\ BuilderIdle
    /\ ParseIdle

(* the user enters a raw value into a control that is shown *)
Input(k) ==
    /\ ControlShown(controls[k], fd)
    /\ \E value \in RawInputs :
          LET after == on_input(controls[k], fd, value)
          IN  /\ fd' = after.fd
              /\ ctl' = [ctl EXCEPT ![k] = [raw |-> value,
                                            state |-> after.state,
                                            event |-> TRUE,
                                            checked |-> after.checked]]
    /\ outcome' = NotRun
    /\ UNCHANGED <<controls, validations, passes, validator, parts>>
    /\ UNCHANGED <<builderVars, parseVars>>

(* the host calls Form::validate; to_parts(self) has not taken the Form *)
CallFormValidate ==
    /\ parts = NotRun
    /\ outcome' = Form_validate(validations, fd)
    /\ UNCHANGED <<controls, validations, passes, fd, ctl, validator, parts>>
    /\ UNCHANGED <<builderVars, parseVars>>

(* the host calls Form::validator *)
CallFormValidator ==
    /\ parts = NotRun
    /\ validator' = Returned(Form_validator(validations))
    /\ UNCHANGED <<controls, validations, passes, fd, ctl, outcome, parts>>
    /\ UNCHANGED <<builderVars, parseVars>>

(* the host calls Form::to_parts, which takes the Form *)
CallFormToParts ==
    /\ parts = NotRun
    /\ parts' = Returned(Form_to_parts(Form_fd, validations, Form_view))
    /\ UNCHANGED <<controls, validations, passes, fd, ctl, outcome, validator>>
    /\ UNCHANGED <<builderVars, parseVars>>

FormNext ==
    \/ \E k \in 1..Len(controls) : Input(k)
    \/ CallFormValidate
    \/ CallFormValidator
    \/ CallFormToParts

SpecForm == FormInit /\ [][FormNext]_vars

----------------------------------------------------------------------------
(* ControlBuilder::build as a function of the builder's fields.  The fields *)
(* are pub(crate): code of the crate can hold a builder with any            *)
(* combination of them set, so the inputs are drawn from every combination. *)

BoundedStyles ==
    UNION {[1..n -> StylingAttributes] : n \in 0..MaxStyles}

FieldsInit ==
    /\ cb \in [tag : {"Builder"},
                fdt : {"u8"},
                data : ControlDatas,
                getter : Option(Getters),
                setter : Option(Setters),
                parse_fn : Option({ParseFn("custom", p) : p \in CustomParseFns}),
                unparse_fn : Option({UnparseFn("custom", u) : u \in CustomUnparseFns}),
                validation_fn : Option(ValidationFns),
                style_attributes : BoundedStyles,
                show_when : Option(ShowWhenFns)]
    /\ vb = NoBuilder
    /\ cbuilt = NotBuilt
    /\ vbuilt = NotBuilt
    /\ hist = {}
    /\ ParseIdle
    /\ FormIdle

FieldsNext == CallBuild

SpecFields == FieldsInit /\ [][FieldsNext]_vars

----------------------------------------------------------------------------
(* C1: build on a builder missing a required component returns Err with    *)
(* the first missing one in the order getter, setter, parse, unparse:       *)
(* MissingGetter if the getter is unset (whatever else is unset), else      *)
(* MissingSetter, else MissingParseFn, else MissingUnParseFn.               *)
C1_FirstMissingComponent ==
    IsConsumed(cb) =>
        LET b == cb.self IN
        /\ b.getter = None => cbuilt = Err("MissingGetter")
        /\ b.getter # None /\ b.setter = None => cbuilt = Err("MissingSetter")
        /\ b.getter # None /\ b.setter # None /\ b.parse_fn = None
              => cbuilt = Err("MissingParseFn")
        /\ b.getter # None /\ b.setter # None /\ b.parse_fn # None
              /\ b.unparse_fn = None
              => cbuilt = Err("MissingUnParseFn")

C1_Witness ==
    /\ IsConsumed(cb)
    /\ cb.self.getter # None
    /\ cb.self.setter # None
    /\ cb.self.parse_fn # None
    /\ cb.self.unparse_fn = None
    /\ cb.self.validation_fn # None
    /\ cbuilt = Err("MissingUnParseFn")

(* C2: after any sequence of configuration calls, build returns Ok exactly  *)
(* when a getter, a setter and a parse/unparse pair have been set;          *)
(* validation function, show_when, styles and control data are not          *)
(* required, and the built data carries exactly what the builder held.      *)
C2_BuildOkIffRequiredSet ==
    IsConsumed(cb) =>
        LET b == cb.self IN
        /\ IsOk(cbuilt) <=> {"getter", "setter", "parse"} \subseteq hist
        /\ IsOk(cbuilt) <=> /\ IsSome(b.getter) /\ IsSome(b.setter)
                            /\ IsSome(b.parse_fn) /\ IsSome(b.unparse_fn)
        /\ IsOk(cbuilt) =>
              /\ cbuilt.val.getter = b.getter.val
              /\ cbuilt.val.setter = b.setter.val
              /\ cbuilt.val.parse_fn = b.parse_fn.val
              /\ cbuilt.val.unparse_fn = b.unparse_fn.val
              /\ cbuilt.val.validation_fn = b.validation_fn
              /\ cbuilt.val.show_when = b.show_when
              /\ cbuilt.val.render_data.data = b.data
              /\ cbuilt.val.render_data.styles = b.style_attributes
        /\ IsErr(cbuilt) => cbuilt.val \in ControlBuildError

C2_Witness ==
    /\ IsConsumed(cb)
    /\ IsOk(cbuilt)
    /\ hist = {"getter", "setter", "parse"}
    /\ cbuilt.val.validation_fn = None
    /\ cbuilt.val.show_when = None
    /\ cbuilt.val.render_data.styles = <<>>

(* C3: VanityControlBuilder::build always yields built data, never an       *)
(* error, whatever show_when, style and getter calls came before (none      *)
(* included); getter and show_when are absent exactly when never set.       *)
C3_VanityBuildAlwaysSucceeds ==
    IsConsumed(vb) =>
        /\ DOMAIN vbuilt = {"render_data", "getter", "show_when"}
        /\ vbuilt.getter = None <=> "getter" \notin hist
        /\ vbuilt.show_when = None <=> "show_when" \notin hist
        /\ vbuilt.getter = vb.self.getter
        /\ vbuilt.show_when = vb.self.show_when
        /\ vbuilt.render_data.data = vb.self.data
        /\ vbuilt.render_data.styles = vb.self.style_attributes

C3_Witness ==
    /\ IsConsumed(vb)
    /\ hist = {"show_when"}
    /\ vbuilt.getter = None
    /\ vbuilt.show_when # None

----------------------------------------------------------------------------
(* What it means for a string to parse as a u8, stated on the string        *)
(* itself: an optional "+" followed by one or more decimal digits whose     *)
(* value fits the type.                                                     *)

NumeralBody(s) == IF s # <<>> /\ s[1] = "+" THEN Tail(s) ELSE s

IsNumeral(s) ==
    /\ NumeralBody(s) # <<>>
    /\ \A i \in 1..Len(NumeralBody(s)) : IsDigit(NumeralBody(s)[i])

RECURSIVE PlaceSum(_, _)
PlaceSum(ds, i) ==
    IF i > Len(ds) THEN 0
    ELSE DigitVal(ds[i]) * 10^(Len(ds) - i) + PlaceSum(ds, i + 1)

NumeralValue(s) == PlaceSum(NumeralBody(s), 1)

ParsesAsU8(s) == IsNumeral(s) /\ NumeralValue(s) <= U8_MAX

(* s without its leading and trailing whitespace *)
WithoutOuterWhitespace(s) ==
    LET inked == {i \in 1..Len(s) : s[i] \notin Whitespace}
    IN  IF inked = {} THEN <<>>
        ELSE SubSeq(s, CHOOSE i \in inked : \A j \in inked : i <= j,
                       CHOOSE i \in inked : \A j \in inked : i >= j)

(* t is the textual form of v: the decimal numeral without sign or          *)
(* leading zeros                                                            *)
IsTextualFormOf(t, v) ==
    /\ IsNumeral(t)
    /\ t[1] # "+"
    /\ Len(t) > 1 => t[1] # "0"
    /\ NumeralValue(t) = v

(* C9: the forward function of parse_or_default / parse_trimmed_or_default  *)
(* returns Ok for every raw string: the parsed value when the (trimmed,     *)
(* for the trimmed variant) string parses, the type's default otherwise.    *)
C9_DefaultingNeverFails ==
    (/\ parsed # NotRun
     /\ conv.parse_fn.kind \in {"or_default", "trimmed_or_default"}) =>
        LET s == IF conv.parse_fn.kind = "trimmed_or_default"
                 THEN WithoutOuterWhitespace(raw) ELSE raw
        IN  /\ IsOk(parsed)
            /\ ParsesAsU8(s) => parsed.val = NumeralValue(s)
            /\ ~ParsesAsU8(s) => parsed.val = 0

C9_Witness ==
    /\ conv # None
    /\ conv.parse_fn.kind = "trimmed_or_default"
    /\ raw = <<" ", "a">>
    /\ parsed = Ok(0)

(* C10: the forward function of parse_optional / parse_optional_trimmed     *)
(* returns Ok(Some(v)) when the string parses to v and Ok(None) when it     *)
(* does not; the backward function maps None to the empty string and        *)
(* Some(v) to v's textual form.                                             *)
C10_OptionalNeverFails ==
    (/\ parsed # NotRun
     /\ conv.parse_fn.kind \in {"optional", "optional_trimmed"}) =>
        LET s == IF conv.parse_fn.kind = "optional_trimmed"
                 THEN WithoutOuterWhitespace(raw) ELSE raw
        IN  /\ IsOk(parsed)
            /\ ParsesAsU8(s) => parsed.val = Some(NumeralValue(s))
            /\ ~ParsesAsU8(s) => parsed.val = None
            /\ unparsed # NotRun =>
                  IF parsed.val = None THEN unparsed.val = <<>>
                  ELSE IsTextualFormOf(unparsed.val, parsed.val.val)

C10_Witness ==
    /\ conv # None
    /\ conv.parse_fn.kind = "optional"
    /\ raw = <<"1", " ">>
    /\ parsed = Ok(None)
    /\ unparsed = Returned(<<>>)

----------------------------------------------------------------------------
(* The entries that fail on a record, and the first of them. *)

FailingEntries(vs, form_data) ==
    {k \in 1..Len(vs) : IsErr(Call_entry(vs[k], form_data))}

FirstOf(S) == CHOOSE k \in S : \A j \in S : k <= j

(* C4: validate returns Ok(()) exactly when every entry returns Ok on the   *)
(* record; otherwise it returns the Err of the failing entry that comes     *)
(* earliest in the list, whichever later entries would fail too.            *)
C4_FirstFailureWins ==
    \A p \in PassIds :
        passes[p].pc = "done" =>
            LET failing == FailingEntries(validations, passes[p].form_data)
            IN  /\ passes[p].result = Ok(unit) <=> failing = {}
                /\ failing # {} =>
                      passes[p].result =
                          Call_entry(validations[FirstOf(failing)],
                                     passes[p].form_data)

C4_Witness ==
    /\ passes["p1"].pc = "done"
    /\ Len(validations) = 2
    /\ FailingEntries(validations, passes["p1"].form_data) = {1, 2}
    /\ passes["p1"].result = Err("required")
    /\ Call_entry(validations[2], passes["p1"].form_data)
          = Err("must be 18 or older")

(* C5: during one validate call the entries are invoked one at a time in    *)
(* list order; once an entry has failed no later entry is invoked, and the  *)
(* entries up to the first failure are each invoked exactly once.           *)
C5_ShortCircuit ==
    \A p \in PassIds :
        passes[p].pc # "idle" =>
            LET pass == passes[p]
                failed == pass.pc = "done" /\ IsErr(pass.result)
            IN  /\ pass.i \in 1..(Len(validations) + 1)
                /\ \A k \in 1..Len(validations) :
                      /\ k < pass.i =>
                            /\ pass.invoked[k] = 1
                            /\ IsOk(Call_entry(validations[k], pass.form_data))
                      /\ k = pass.i => pass.invoked[k] = IF failed THEN 1 ELSE 0
                      /\ k > pass.i => pass.invoked[k] = 0 /\ pass.ran[k] = 0
                /\ failed => pass.i \in FailingEntries(validations, pass.form_data)

C5_Witness ==
    /\ passes["p1"].pc = "done"
    /\ IsErr(passes["p1"].result)
    /\ passes["p1"].i = 1
    /\ Len(validations) = 2
    /\ IsErr(Call_entry(validations[2], passes["p1"].form_data))
    /\ passes["p1"].invoked = <<1, 0>>

(* C6: a control whose visibility predicate is false for the snapshot       *)
(* being validated does not have its validation function run, and validate  *)
(* returns Ok whenever every shown control passes, even if a hidden         *)
(* control's validation function would fail on that snapshot.               *)
C6_HiddenFieldSkipped ==
    \A p \in PassIds :
        passes[p].pc # "idle" =>
            LET pass == passes[p]
            IN  /\ \A k \in 1..Len(validations) :
                      ~Entry_shown(validations[k], pass.form_data)
                          => pass.ran[k] = 0
                /\ Len(validations) =
                      Cardinality({j \in 1..Len(controls) :
                                      IsSome(controls[j].validation_fn)})
                /\ (/\ pass.pc = "done"
                     /\ \A j \in 1..Len(controls) :
                           (/\ IsSome(controls[j].validation_fn)
                            /\ ControlShown(controls[j], pass.form_data))
                           => IsOk(Call_validation_fn(
                                      controls[j].validation_fn.val,
                                      pass.form_data)))
                    => pass.result = Ok(unit)

C6_Witness ==
    /\ passes["p1"].pc = "done"
    /\ passes["p1"].result = Ok(unit)
    /\ \E j \in 1..Len(controls) :
          /\ IsSome(controls[j].validation_fn)
          /\ ~ControlShown(controls[j], passes["p1"].form_data)
          /\ IsErr(Call_validation_fn(controls[j].validation_fn.val,
                                      passes["p1"].form_data))
    /\ \E j \in 1..Len(controls) :
          /\ IsSome(controls[j].validation_fn)
          /\ ControlShown(controls[j], passes["p1"].form_data)

----------------------------------------------------------------------------
(* C7: when the raw value entered fails the forward conversion, the         *)
(* control's state is ParseError with the conversion's message and its      *)
(* validation function is not evaluated; ValidationError arises only when   *)
(* the raw value parsed and the validation function rejected the record.    *)
C7_ParseErrorBlocksValidation ==
    \A k \in 1..Len(ctl) :
        ctl[k].event =>
            LET c == controls[k]
                r == Call_parse_fn(c.parse_fn, ctl[k].raw)
            IN  /\ IsErr(r) =>
                      /\ ctl[k].state = ParseError(r.val)
                      /\ ctl[k].checked = None
                /\ ctl[k].state.tag = "ParseError" => IsErr(r)
                /\ ctl[k].state.tag = "ValidationError" =>
                      /\ IsOk(r)
                      /\ IsSome(c.validation_fn)
                      /\ IsSome(ctl[k].checked)
                      /\ Call_getter(c.getter, ctl[k].checked.val) = r.val
                      /\ Call_validation_fn(c.validation_fn.val,
                                            ctl[k].checked.val)
                            = Err(ctl[k].state.msg)

C7_Witness ==
    /\ Len(ctl) >= 1
    /\ ctl[1].event
    /\ ctl[1].raw = <<"a", "b", "c">>
    /\ controls[1].parse_fn.kind = "trimmed"
    /\ controls[1].validation_fn = Some("adult")
    /\ IsErr(Call_validation_fn("adult", fd))
    /\ ctl[1].state = ParseError("invalid digit found in string")
    /\ ctl[1].checked = None

(* The error a field shows or would show: its parse error if the raw value  *)
(* entered does not parse, else its validation function's verdict.          *)
FieldError(k) ==
    LET c == controls[k]
        r == Call_parse_fn(c.parse_fn, ctl[k].raw)
    IN  IF ctl[k].event /\ IsErr(r) THEN r
        ELSE IF IsSome(c.validation_fn)
             THEN Call_validation_fn(c.validation_fn.val, fd)
             ELSE Ok(unit)

(* C8 as claimed: validate() returns the first parse error or validation    *)
(* error in declaration order across the shown fields; for raw "abc" under  *)
(* a trimmed integer parse it returns the integer-parse error.              *)
C8_ParseErrorReportedByValidate ==
    outcome # NotRun =>
        LET bad == {k \in 1..Len(controls) :
                        ControlShown(controls[k], fd) /\ IsErr(FieldError(k))}
        IN  outcome = IF bad = {} THEN Ok(unit) ELSE FieldError(FirstOf(bad))

(* C8 amended: validate() returns the first validation error in             *)
(* declaration order across the shown fields, judged on the form data as    *)
(* it stands; a field's parse error is never what validate() returns (the   *)
(* raw value that failed to parse never reaches the form data).  For raw    *)
(* " 17 " under a trimmed parse with predicate age >= 18 on the first       *)
(* field it returns the validation message.                                 *)
C8_ValidateReportsValidationErrorsOnly ==
    outcome # NotRun =>
        LET bad == {k \in 1..Len(controls) :
                        /\ ControlShown(controls[k], fd)
                        /\ IsSome(controls[k].validation_fn)
                        /\ IsErr(Call_validation_fn(
                                     controls[k].validation_fn.val, fd))}
        IN  /\ outcome =
                  IF bad = {} THEN Ok(unit)
                  ELSE Call_validation_fn(
                           controls[FirstOf(bad)].validation_fn.val, fd)
            /\ \A k \in 1..Len(ctl) :
                  ctl[k].state.tag = "ParseError"
                      => outcome # Err(ctl[k].state.msg)
            /\ (/\ ctl[1].event
                 /\ ctl[1].raw = <<" ", "1", "7", " ">>
                 /\ controls[1].parse_fn.kind = "trimmed"
                 /\ controls[1].validation_fn = Some("adult")
                 /\ ControlShown(controls[1], fd))
                => /\ outcome = Err("must be 18 or older")
                   /\ ctl[1].state = ValidationError("must be 18 or older")

C8_Witness ==
    /\ outcome = Err("must be 18 or older")
    /\ Len(ctl) = 2
    /\ ctl[1].event
    /\ ctl[1].raw = <<"a", "b", "c">>
    /\ controls[1].parse_fn.kind = "trimmed"
    /\ ctl[1].state = ParseError("invalid digit found in string")
    /\ ControlShown(controls[1], fd)

C8_ExampleReached ==
    /\ outcome = Err("must be 18 or older")
    /\ ctl[1].event
    /\ ctl[1].raw = <<" ", "1", "7", " ">>
    /\ controls[1].parse_fn.kind = "trimmed"
    /\ controls[1].validation_fn = Some("adult")
    /\ ControlShown(controls[1], fd)

----------------------------------------------------------------------------
(* C11: for the pairs parse_string, parse_trimmed and their _msg variants,  *)
(* whenever the raw value parses, the value the backward function produces  *)
(* for the parsed value parses again, under the same forward function, to   *)
(* the same field value (the text itself may differ: "+07" comes back as    *)
(* "7").                                                                    *)
C11_RoundTrip ==
    (/\ conv.parse_fn.kind \in {"string", "trimmed", "string_msg", "trimmed_msg"}
     /\ parsed # NotRun
     /\ IsOk(parsed)) =>
        /\ unparsed # NotRun =>
              /\ ParsesAsU8(unparsed.val)
              /\ NumeralValue(unparsed.val) = parsed.val
        /\ reparsed # NotRun =>
              /\ IsOk(reparsed)
              /\ reparsed.val = parsed.val

C11_Witness ==
    /\ conv # None
    /\ conv.parse_fn.kind = "string"
    /\ raw = <<"+", "0", "7">>
    /\ parsed = Ok(7)
    /\ unparsed = Returned(<<"7">>)
    /\ reparsed = Ok(7)

(* The runs of whitespace put before and after a raw value. *)
MaxPad == 2

WhitespaceRuns == UNION {[1..n -> Whitespace] : n \in 0..MaxPad}

(* C12: the forward functions of parse_trimmed, parse_trimmed_msg,          *)
(* parse_optional_trimmed and parse_trimmed_or_default give, for the raw    *)
(* value with any whitespace put before and after it, the result they give  *)
(* for the raw value itself, be it a value or an error; the result is the   *)
(* one for the raw value without its outer whitespace.                      *)
C12_TrimmedIgnoresOuterWhitespace ==
    (/\ parsed # NotRun
     /\ conv.parse_fn.kind \in {"trimmed", "trimmed_msg", "optional_trimmed",
                                "trimmed_or_default"}) =>
        /\ \A pre \in WhitespaceRuns, suf \in WhitespaceRuns :
              Call_parse_fn(conv.parse_fn, pre \o raw \o suf) = parsed
        /\ Call_parse_fn(conv.parse_fn, WithoutOuterWhitespace(raw)) = parsed

C12_Witness ==
    /\ conv # None
    /\ conv.parse_fn.kind = "trimmed"
    /\ raw = <<" ", "7", " ">>
    /\ parsed = Ok(7)
    /\ Call_parse_fn(conv.parse_fn, <<"7">>) = Ok(7)
    /\ Call_parse_fn(conv.parse_fn, <<" ", " ", "7", " ">>) = Ok(7)

----------------------------------------------------------------------------
(* The pair a parse_* call is to leave in the builder. *)
Installed(pkind, parg, ukind, uarg) ==
    [parse_fn |-> ParseFn(pkind, parg), unparse_fn |-> UnparseFn(ukind, uarg)]

(* the unparse function that goes with a parse function *)
MatchOf(pf) ==
    CASE pf.kind = "custom" -> {UnparseFn("custom", u) : u \in CustomUnparseFns}
      [] pf.kind \in {"from", "from_msg"} -> {UnparseFn("from", "")}
      [] pf.kind \in {"optional", "optional_trimmed"} -> {UnparseFn("optional", "")}
      [] OTHER -> {UnparseFn("to_string", "")}

C13_Matched ==
    /\ IsBuilder(cb) =>
          /\ IsSome(cb.parse_fn) <=> IsSome(cb.unparse_fn)
          /\ IsSome(cb.parse_fn) <=> "parse" \in hist
          /\ IsSome(cb.parse_fn) => cb.unparse_fn.val \in MatchOf(cb.parse_fn.val)
    /\ IsConsumed(cb) =>
          /\ IsSome(cb.self.parse_fn) <=> IsSome(cb.self.unparse_fn)
          /\ cbuilt # Err("MissingUnParseFn")

C13_Replaces ==
    /\ \A p \in CustomParseFns, u \in CustomUnparseFns :
          ControlCall(parse_custom(cb, p, u), "parse")
              => PairOf(cb') = Installed("custom", p, "custom", u)
    /\ CallParseFrom => PairOf(cb') = Installed("from", "", "from", "")
    /\ \A m \in Msgs :
          (IsBuilder(cb) /\ cb.fdt = "Newtype" /\ ControlCall(parse_from_msg(cb, m), "parse"))
              => PairOf(cb') = Installed("from_msg", m, "from", "")
    /\ CallParseString => PairOf(cb') = Installed("string", "", "to_string", "")
    /\ CallParseTrimmed => PairOf(cb') = Installed("trimmed", "", "to_string", "")
    /\ \A m \in Msgs :
          (IsBuilder(cb) /\ cb.fdt = "u8"
              /\ ControlCall(parse_string_msg(cb, m), "parse"))
              => PairOf(cb') = Installed("string_msg", m, "to_string", "")
    /\ \A m \in Msgs :
          (IsBuilder(cb) /\ cb.fdt = "u8" /\ ControlCall(parse_trimmed_msg(cb, m), "parse"))
              => PairOf(cb') = Installed("trimmed_msg", m, "to_string", "")
    /\ CallParseOptional
          => PairOf(cb') = Installed("optional", "", "optional", "")
    /\ CallParseOptionalTrimmed
          => PairOf(cb') = Installed("optional_trimmed", "", "optional", "")
    /\ CallParseOrDefault
          => PairOf(cb') = Installed("or_default", "", "to_string", "")
    /\ CallParseTrimmedOrDefault
          => PairOf(cb') = Installed("trimmed_or_default", "", "to_string", "")

(* C13: in every builder state reached through the public configuration     *)
(* calls the parse function is set exactly when the unparse function is,    *)
(* the two belong together, and each parse_* call leaves the pair of that   *)
(* call, whatever pair was there before; build never returns                *)
(* MissingUnParseFn.                                                        *)
C13_MatchedPair == []C13_Matched /\ [][C13_Replaces]_vars

C13_Witness ==
    /\ IsConsumed(cb)
    /\ IsOk(cbuilt)
    /\ cbuilt.val.parse_fn = ParseFn("trimmed_msg", "m2")
    /\ cbuilt.val.unparse_fn = UnparseFn("to_string", "")

----------------------------------------------------------------------------
(* What the list of entries says of a record: the Err of the earliest       *)
(* failing entry, Ok(()) if there is none. *)
FirstFailure(vs, form_data) ==
    IF FailingEntries(vs, form_data) = {} THEN Ok(unit)
    ELSE Call_entry(vs[FirstOf(FailingEntries(vs, form_data))], form_data)

(* C14: Form::validate returns what the form's validations say of the       *)
(* form data as it stands; the validators Form::validator and               *)
(* Form::to_parts return hold the form's entries in the form's order, and   *)
(* run on the same record give the result Form::validate gave; to_parts     *)
(* returns the form's own signal and view.                                  *)
C14_ValidateValidatorToPartsAgree ==
    /\ validator # NotRun => validator.val = validations
    /\ parts # NotRun =>
          /\ parts.val[1] = Form_fd
          /\ parts.val[2] = validations
          /\ parts.val[3] = Form_view
    /\ outcome # NotRun =>
          /\ outcome = FirstFailure(validations, fd)
          /\ validator # NotRun =>
                FormValidator_validate(validator.val, fd) = outcome
          /\ parts # NotRun =>
                FormValidator_validate(parts.val[2], fd) = outcome

C14_Witness ==
    /\ outcome = Err("required")
    /\ validator # NotRun
    /\ parts # NotRun
    /\ Len(validations) = 2
    /\ FailingEntries(validations, fd) = {1, 2}
    /\ FormValidator_validate(validator.val, fd) = Err("required")
    /\ FormValidator_validate(parts.val[2], fd) = Err("required")

C15_EachPassAsIfAlone ==
    \A p \in PassIds :
        passes[p].pc = "done" =>
            passes[p].result = FirstFailure(validations, passes[p].form_data)

C15_NothingShared ==
    /\ validations' = validations
    /\ controls' = controls
    /\ \A p \in PassIds :
          /\ passes[p].pc = "running" =>
                passes'[p].form_data = passes[p].form_data
          /\ passes'[p] # passes[p] =>
                \A q \in PassIds \ {p} : passes'[q] = passes[q]

(* C15: validate calls that run at the same time, each on its caller's own  *)
(* record, with only the validator's entries in common, do not interfere:   *)
(* under every interleaving of their steps each call returns what the       *)
(* entries say of its own record, a step of one call changes nothing of     *)
(* another, and no step changes a record or the entries.                    *)
C15_ConcurrentPassesIndependent ==
    []C15_EachPassAsIfAlone /\ [][C15_NothingShared]_vars

C15_Witness ==
    /\ Len(validations) = 2
    /\ passes["p1"].pc = "running"
    /\ passes["p1"].i = 2
    /\ passes["p1"].form_data = FormData(18, 1)
    /\ passes["p2"].pc = "done"
    /\ passes["p2"].form_data = FormData(17, 0)
    /\ passes["p2"].result = Err("must be 18 or older")
    /\ passes["p2"].i = 1
    /\ FirstFailure(validations, passes["p1"].form_data) = Ok(unit)

----------------------------------------------------------------------------
(* Whether the visibility predicate an entry carries holds for a record. *)
VisibleFor(e, form_data) ==
    IF e.show_when = None THEN TRUE
    ELSE Call_show_when(e.show_when.val, form_data)

(* C16: whether an entry's validation function runs in a validate call is   *)
(* decided by the visibility predicate on the record of that very call: an  *)
(* entry that is invoked runs its validation function exactly when its      *)
(* field is visible for this record, so the same entry is skipped in a call *)
(* on a record that hides the field and run in a call on a record that      *)
(* shows it, in whichever order and however often the calls are made.       *)
C16_VisibilityPerCall ==
    /\ \A p \in PassIds :
          passes[p].pc # "idle" =>
              \A k \in 1..Len(validations) :
                  LET pass == passes[p]
                      visible == VisibleFor(validations[k], pass.form_data)
                  IN  /\ pass.ran[k] =
                            IF pass.invoked[k] = 1 /\ visible THEN 1 ELSE 0
                      /\ (pass.pc = "done" /\ IsErr(pass.result) /\ pass.i = k) =>
                            /\ visible
                            /\ pass.result =
                                  Call_validation_fn(validations[k].validation_fn,
                                                     pass.form_data)
    /\ \A p \in PassIds, q \in PassIds, k \in 1..Len(validations) :
          (/\ passes[p].pc = "done"
           /\ passes[q].pc = "done"
           /\ ~VisibleFor(validations[k], passes[p].form_data)
           /\ VisibleFor(validations[k], passes[q].form_data)
           /\ IsErr(Call_validation_fn(validations[k].validation_fn,
                                       passes[q].form_data))
           /\ passes[q].invoked[k] = 1)
          => /\ passes[p].ran[k] = 0
             /\ passes[q].ran[k] = 1
             /\ IsErr(passes[q].result)

C16_Witness ==
    /\ Len(validations) >= 1
    /\ validations[1] =
          [validation_fn |-> "adult", show_when |-> Some("when_has_qty")]
    /\ passes["p1"].pc = "done"
    /\ passes["p1"].form_data = FormData(17, 0)
    /\ passes["p1"].ran[1] = 0
    /\ passes["p1"].result = Ok(unit)
    /\ passes["p2"].pc = "done"
    /\ passes["p2"].form_data = FormData(17, 1)
    /\ passes["p2"].ran[1] = 1
    /\ passes["p2"].result = Err("must be 18 or older")

----------------------------------------------------------------------------
(* The controls of the form definition that carry a validation function,    *)
(* in declaration order, and the first of them that is shown for a record   *)
(* and whose validation function rejects it. *)
HasValidation(c) == IsSome(c.validation_fn)

Validated(cs) == SelectSeq(cs, HasValidation)

Rejecting(cs, form_data) ==
    {j \in 1..Len(cs) :
        /\ ControlShown(cs[j], form_data)
        /\ IsErr(Call_validation_fn(cs[j].validation_fn.val, form_data))}

(* C17: a control built without a validation function contributes no entry  *)
(* to the validator: the entries are those of the controls that have one,   *)
(* in order, so the result of validate on any record is the same with and   *)
(* without the controls that have none, and a form none of whose controls   *)
(* has a validation function validates every record as Ok.                  *)
C17_NoValidationFnNoEntry ==
    LET vcs == Validated(controls)
    IN  /\ Len(validations) = Len(vcs)
        /\ \A k \in 1..Len(vcs) :
              /\ validations[k].validation_fn = vcs[k].validation_fn.val
              /\ validations[k].show_when = vcs[k].show_when
        /\ \A p \in PassIds :
              passes[p].pc = "done" =>
                  LET bad == Rejecting(vcs, passes[p].form_data)
                  IN  /\ bad = {} => passes[p].result = Ok(unit)
                      /\ bad # {} =>
                            passes[p].result =
                                Call_validation_fn(
                                    vcs[FirstOf(bad)].validation_fn.val,
                                    passes[p].form_data)
                      /\ vcs = <<>> => passes[p].result = Ok(unit)

C17_Witness ==
    /\ Len(controls) = 2
    /\ controls[1].validation_fn = None
    /\ controls[2].validation_fn = Some("adult")
    /\ Len(validations) = 1
    /\ passes["p1"].pc = "done"
    /\ passes["p1"].result = Err("must be 18 or older")
    /\ passes["p1"].invoked = <<1>>

----------------------------------------------------------------------------
(* The plain parse function a fixed-message parse function goes with. *)
PlainOf(pf) ==
    CASE pf.kind = "string_msg" -> ParseFn("string", "")
      [] pf.kind = "trimmed_msg" -> ParseFn("trimmed", "")
      [] pf.kind = "from_msg" -> ParseFn("from", "")

(* C18: the forward functions of parse_string_msg, parse_trimmed_msg and    *)
(* parse_from_msg succeed on exactly the raw values their plain             *)
(* counterparts succeed on, with the same field value; when they fail the   *)
(* error is the message given to the method and not the error the plain     *)
(* counterpart reports; the backward function is the plain one's.           *)
C18_MsgVariantsDifferInErrorTextOnly ==
    (/\ parsed # NotRun
     /\ conv.parse_fn.kind \in {"string_msg", "trimmed_msg", "from_msg"}) =>
        LET plain == Call_parse_fn(PlainOf(conv.parse_fn), raw)
        IN  /\ IsOk(parsed) <=> IsOk(plain)
            /\ IsOk(parsed) => parsed.val = plain.val
            /\ IsErr(parsed) =>
                  /\ parsed.val = conv.parse_fn.arg
                  /\ parsed.val # plain.val
            /\ conv.unparse_fn \in MatchOf(PlainOf(conv.parse_fn))

C18_Witness ==
    /\ conv # None
    /\ conv.parse_fn = ParseFn("string_msg", "m2")
    /\ raw = <<"7", "7", "7">>
    /\ parsed = Err("m2")
    /\ Call_parse_fn(ParseFn("string", ""), raw)
          = Err("number too large to fit in target type")

----------------------------------------------------------------------------
(* The components of a text input's builder: the builder's own fields and   *)
(* the fields of its TextInputData. *)
BuilderSlots ==
    {"tag", "fdt", "getter", "setter", "parse_fn", "unparse_fn",
     "validation_fn", "style_attributes", "show_when"}

DataSlots == {"name", "label", "placeholder", "input_type", "update_event"}

(* the builder after a call differs from the one before in no component     *)
(* other than those named *)
OnlyChanged(before, after, slots, dataSlots) ==
    /\ \A f \in BuilderSlots \ slots : after[f] = before[f]
    /\ \A f \in DataSlots \ dataSlots : after.data[f] = before.data[f]

(* the results of the parse_* calls the builder's FDT admits *)
AfterParseCall(b) ==
    {parse_custom(b, p, u) : p \in CustomParseFns, u \in CustomUnparseFns}
    \cup (IF b.fdt = "Newtype"
          THEN {parse_from(b)} \cup {parse_from_msg(b, m) : m \in Msgs}
          ELSE {})
    \cup (IF b.fdt = "u8"
          THEN {parse_string(b), parse_trimmed(b), parse_or_default(b),
                parse_trimmed_or_default(b)}
               \cup {parse_string_msg(b, m) : m \in Msgs}
               \cup {parse_trimmed_msg(b, m) : m \in Msgs}
          ELSE {})
    \cup (IF b.fdt = "Option<u8>"
          THEN {parse_optional(b), parse_optional_trimmed(b)}
          ELSE {})

(* C19: each configuration call on a text input's builder changes its own   *)
(* component only, whatever calls came before.  getter, setter, show_when,  *)
(* validation_fn, named, labeled, placeholder, input_type / password /      *)
(* date and update_on leave the value of this call in their slot, whatever  *)
(* was there before; a parse_* call changes the parse / unparse pair only;  *)
(* style puts one attribute at the end of the list and keeps the earlier    *)
(* ones in order.                                                           *)
C19_EachCallChangesItsOwnComponent ==
    IsBuilder(cb) =>
    /\ \A w \in ShowWhenFns :
          /\ show_when(cb, w).show_when = Some(w)
          /\ OnlyChanged(cb, show_when(cb, w), {"show_when"}, {})
    /\ \A g \in Getters :
          /\ getter(cb, g).getter = Some(g)
          /\ OnlyChanged(cb, getter(cb, g), {"getter"}, {})
    /\ \A s \in Setters :
          /\ setter(cb, s).setter = Some(s)
          /\ OnlyChanged(cb, setter(cb, s), {"setter"}, {})
    /\ \A v \in ValidationFns :
          /\ validation_fn(cb, v).validation_fn = Some(v)
          /\ OnlyChanged(cb, validation_fn(cb, v), {"validation_fn"}, {})
    /\ \A after \in AfterParseCall(cb) :
          OnlyChanged(cb, after, {"parse_fn", "unparse_fn"}, {})
    /\ \A a \in StylingAttributes :
          LET before == cb.style_attributes
              after == style(cb, a).style_attributes
          IN  /\ Len(after) = Len(before) + 1
              /\ after[Len(after)] = a
              /\ \A i \in 1..Len(before) : after[i] = before[i]
              /\ OnlyChanged(cb, style(cb, a), {"style_attributes"}, {})
    /\ \A n \in ControlNames :
          /\ named(cb, n).data.name = n
          /\ OnlyChanged(cb, named(cb, n), {}, {"name"})
    /\ \A l \in Labels :
          /\ labeled(cb, l).data.label = Some(l)
          /\ OnlyChanged(cb, labeled(cb, l), {}, {"label"})
    /\ \A ph \in Placeholders :
          /\ placeholder(cb, ph).data.placeholder = Some(ph)
          /\ OnlyChanged(cb, placeholder(cb, ph), {}, {"placeholder"})
    /\ password(cb).data.input_type = "password"
    /\ OnlyChanged(cb, password(cb), {}, {"input_type"})
    /\ date(cb).data.input_type = "date"
    /\ OnlyChanged(cb, date(cb), {}, {"input_type"})
    /\ \A t \in InputTypes :
          /\ input_type(cb, t).data.input_type = t
          /\ OnlyChanged(cb, input_type(cb, t), {}, {"input_type"})
    /\ \A e \in UpdateEvents :
          /\ update_on(cb, e).data.update_event = e
          /\ OnlyChanged(cb, update_on(cb, e), {}, {"update_event"})

C19_Witness ==
    /\ IsBuilder(cb)
    /\ hist = {"validation_fn", "style", "named"}
    /\ cb.validation_fn = Some("has_qty")
    /\ cb.style_attributes = <<"a2", "a1">>
    /\ cb.data.name = "n2"
    /\ cb.data.label = None
    /\ cb.data.input_type = "input"
    /\ cb.getter = None
    /\ cb.parse_fn = None

====
